---- MODULE Spec2Model ----
(***************************************************************************)
(* State-machine model of src/src/data_enrichment.py: LEIDataEnricher with  *)
(* its in-memory LEI cache, the retrying registry lookup _fetch_lei_data,   *)
(* the batch operation enrich_dataset and the per-row cost calculation.     *)
(***************************************************************************)
EXTENDS Integers, Sequences, FiniteSets, TLC

(***************************************************************************)
(* Bounds of the model.                                                     *)
(***************************************************************************)
\* max_retries is configured at construction from 0..MaxRetries
MaxRetries == 3
\* an input table has at most MaxRows rows
MaxRows == 2
\* number of calls the client of the enricher makes
MaxCalls == 2

(***************************************************************************)
(* Values.                                                                  *)
(***************************************************************************)
LEIs == {"L1", "L2"}

\* Python None as a value of lei_info (the value of a function that falls
\* off its end)
PyNone == [py |-> "None"]

\* JSON null in the position of a country string (Python None)
JsonNull == "<null>"

\* {'legalName': '', 'bic': '', 'country': ''}
EmptyRecord == [legalName |-> "", bic |-> "", country |-> ""]

\* numbers are exact rationals num/den with den > 0
Num(n, d) == [kind |-> "num", num |-> n, den |-> d]
\* a cell float() rejects with ValueError or TypeError
NonNumeric == [kind |-> "str", num |-> 0, den |-> 1]

RECURSIVE Gcd(_, _)
Gcd(a, b) == IF b = 0 THEN a ELSE Gcd(b, a % b)

Abs(x) == IF x < 0 THEN -x ELSE x

\* the rational n/d in lowest terms, d /= 0
Rat(n, d) ==
    LET g == Gcd(Abs(n), Abs(d))
        s == IF d < 0 THEN -1 ELSE 1
    IN  Num((s * n) \div g, (s * d) \div g)

Zero == Num(0, 1)

\* 2 ** attempt
RECURSIVE Pow2(_)
Pow2(n) == IF n = 0 THEN 1 ELSE 2 * Pow2(n - 1)

(***************************************************************************)
(* The registry: what one HTTP attempt can come back with.                  *)
(***************************************************************************)
\* the 'attributes' of data[0]: entity.legalName.name, bic (a list),
\* entity.legalAddress.country
Attributes ==
    { [name |-> "Acme Ltd", bic |-> <<"ACMEGB2L", "ACMEGB3X">>, country |-> "GB"],
      [name |-> "Beta BV",  bic |-> <<>>,                       country |-> "nl"],
      [name |-> "Gamma SA", bic |-> <<"GAMMFRPP">>,             country |-> JsonNull] }

NoAttributes == [name |-> "", bic |-> <<>>, country |-> ""]

\* records:          2xx, JSON object whose 'data' holds a record
\* norecords:        2xx, JSON object without 'data' or with data == []
\* transport:        timeout, connection error or non-2xx status
\* unparseable:      2xx, body is not JSON
\* shape_keyerror:   2xx, JSON whose shape makes the extraction raise KeyError
\*                   (data is a non-empty object)
\* shape_typeerror:  2xx, JSON whose shape makes the extraction raise TypeError
\*                   or AttributeError (body null, data[0] a string, ...)
Responses ==
    [kind : {"records"}, attributes : Attributes]
    \cup [kind : {"norecords", "transport", "unparseable", "shape_keyerror",
                  "shape_typeerror"},
          attributes : {NoAttributes}]

\* What response.json() raises on a body that is not JSON depends on the
\* installed requests: requests.exceptions.JSONDecodeError (a
\* RequestException, requests >= 2.27), json.JSONDecodeError (older
\* requests) or simplejson's JSONDecodeError (older requests with simplejson
\* installed: a ValueError that neither except clause names).
JsonErrors == {"RequestException", "JSONDecodeError", "ValueError"}

VARIABLES
    max_retries,     \* self.max_retries
    json_error,      \* the exception class response.json() raises in this build
    lei_cache,       \* self._lei_cache
    calls,           \* number of calls made on the enricher so far
    \* frame of _fetch_lei_data
    lei_code,        \* its argument
    attempt,         \* the loop variable
    fetch_state,     \* "idle", "active", "returned", "raised"
    fetch_error,     \* the exception class it raised, "" if none
    result,          \* its return value
    trace,           \* requests, sleeps and cache writes of this invocation, in order
    cache_at_call,   \* lei_cache when this invocation started
    last_outcome,    \* per LEI, how its latest network resolution ended
    prev_outcome,    \* last_outcome[lei_code] when this invocation started
    \* frame of enrich_dataset
    input_data,      \* its argument
    unique_leis,     \* input_data['lei'].unique()
    idx,             \* position of the lookup loop in unique_leis
    lei_info,        \* the local lei_info
    enrich_state,    \* "idle", "lookup", "waiting", "returned", "raised"
    enrich_error,    \* the exception class it raised, "" if none
    enriched_data,   \* its return value
    fetch_calls,     \* per LEI, invocations of _fetch_lei_data by this enrich_dataset
    resolved         \* per looked-up LEI, how its _fetch_lei_data ended

fetch_vars == <<lei_code, attempt, fetch_state, fetch_error, result, trace,
                cache_at_call, prev_outcome>>
enrich_vars == <<input_data, unique_leis, idx, lei_info, enrich_state,
                 enrich_error, enriched_data, fetch_calls, resolved>>

VARIABLES
    \* the cache file of save_cache and load_cache
    cache_file,      \* what the file lei_cache.json holds
    persist_op,      \* the latest save_cache or load_cache call and how it ended
    saved_from,      \* the cache the file was written from, if a save wrote it whole
    \* two enrich_dataset calls against an unchanged registry
    registry,        \* per LEI, the answer the registry gives to every request
    first_run,       \* how the first of the two calls ended
    \* a call of _calculate_transaction_costs on its own
    cost_in,         \* its argument, the row
    cost_out         \* what it returned or raised

persist_vars == <<cache_file, persist_op, saved_from>>
idem_vars == <<registry, first_run>>
cost_vars == <<cost_in, cost_out>>
core_vars == <<max_retries, json_error, lei_cache, calls, last_outcome,
               fetch_vars, enrich_vars>>
vars == <<core_vars, persist_vars, idem_vars, cost_vars>>

(***************************************************************************)
(* _fetch_lei_data                                                          *)
(***************************************************************************)
EmptyMap == [l \in {} |-> EmptyRecord]

\* CacheHit with the cache check lost
CacheHitNever(cache, lei) == FALSE

\* lei_code in self._lei_cache
CacheHit(cache, lei) == lei \in DOMAIN cache

\* CachePut with the write lost
CachePutDropped(cache, lei, rec) == cache
CachePutAlone(cache, lei, rec) == [l \in {lei} |-> rec]
CachePutBlank(cache, lei, rec) ==
    [l \in DOMAIN cache \cup {lei} |-> IF l = lei THEN EmptyRecord ELSE cache[l]]

\* self._lei_cache[lei_code] = result
CachePut(cache, lei, rec) ==
    [l \in DOMAIN cache \cup {lei} |-> IF l = lei THEN rec ELSE cache[l]]

\* the result dictionary built from data['data'][0]
Extract(attributes) ==
    [legalName |-> attributes.name,
     bic       |-> IF Len(attributes.bic) > 0 THEN attributes.bic[1] ELSE "",
     country   |-> attributes.country]

\* what the try block of one attempt ends with: "record" and "empty" are its
\* two return statements, anything else the class of the exception raised
Classify(resp, json_err) ==
    CASE resp.kind = "records"         -> "record"
      [] resp.kind = "norecords"       -> "empty"
      [] resp.kind = "transport"       -> "RequestException"
      [] resp.kind = "unparseable"     -> json_err
      [] resp.kind = "shape_keyerror"  -> "KeyError"
      [] resp.kind = "shape_typeerror" -> "TypeError"

\* except requests.exceptions.RequestException
IsRequestException(class) == class = "RequestException"

\* except (KeyError, json.JSONDecodeError)
IsParseError(class) == class \in {"KeyError", "JSONDecodeError"}

\* if attempt < self.max_retries - 1
RetryLeft(att, retries) == att < retries - 1

\* Backoff with 2 * attempt for 2 ** attempt
BackoffLinear(att) == 2 * att

\* time.sleep(2 ** attempt)
Backoff(att) == Pow2(att)

\* OnRequestException caching the all-empty record like the parse-error handler
OnRequestExceptionCaches(cache, lei) ==
    [l \in DOMAIN cache \cup {lei} |-> IF l = lei THEN EmptyRecord ELSE cache[l]]

\* the lines 120-125 write nothing to the cache
OnRequestException(cache, lei) == cache

\* the events of trace: a request (with the attempt number, the kind of the
\* response and what the try block ended with), a backoff sleep (with its
\* length), the rate-limit sleep, a write to the cache
Request(att, resp, class) ==
    [ev |-> "request", n |-> att, kind |-> resp.kind, how |-> class]
BackoffSleep(units) == [ev |-> "backoff", n |-> units, kind |-> "", how |-> ""]
RateLimitSleep == [ev |-> "rate_limit_delay", n |-> 0, kind |-> "", how |-> ""]
CacheWrite == [ev |-> "cache_write", n |-> 0, kind |-> "", how |-> ""]

\* entry of _fetch_lei_data up to the first attempt: the cache check, and the
\* loop over range(self.max_retries), which has no iteration when max_retries
\* is 0, so that the function falls off its end and returns None
FetchEnter(lei) ==
    /\ lei_code' = lei
    /\ attempt' = 0
    /\ trace' = <<>>
    /\ cache_at_call' = lei_cache
    /\ prev_outcome' = last_outcome[lei]
    /\ fetch_error' = ""
    /\ IF CacheHit(lei_cache, lei)
       THEN fetch_state' = "returned" /\ result' = lei_cache[lei]
       ELSE IF max_retries > 0
            THEN fetch_state' = "active" /\ result' = PyNone
            ELSE fetch_state' = "returned" /\ result' = PyNone

AfterRecordSleepFirst == <<RateLimitSleep, CacheWrite>>

\* what follows the extraction of a record: the cache write, then
\* time.sleep(self.rate_limit_delay)
AfterRecord == <<CacheWrite, RateLimitSleep>>

\* an attempt that finds a record: extract, cache, rate-limit sleep, return
AttemptRecord(resp) ==
    /\ fetch_state = "active"
    /\ Classify(resp, json_error) = "record"
    /\ result' = Extract(resp.attributes)
    /\ lei_cache' = CachePut(lei_cache, lei_code, Extract(resp.attributes))
    /\ trace' = trace \o <<Request(attempt, resp, "record")>> \o AfterRecord
    /\ fetch_state' = "returned"
    /\ last_outcome' = [last_outcome EXCEPT ![lei_code] = "record"]
    /\ UNCHANGED <<max_retries, json_error, calls, lei_code, attempt, fetch_error,
                   cache_at_call, prev_outcome, enrich_vars>>

\* an attempt that finds no record: cache the all-empty record and return it
AttemptNoRecords(resp) ==
    /\ fetch_state = "active"
    /\ Classify(resp, json_error) = "empty"
    /\ result' = EmptyRecord
    /\ lei_cache' = CachePut(lei_cache, lei_code, EmptyRecord)
    /\ trace' = trace \o <<Request(attempt, resp, "empty"), CacheWrite>>
    /\ fetch_state' = "returned"
    /\ last_outcome' = [last_outcome EXCEPT ![lei_code] = "norecords"]
    /\ UNCHANGED <<max_retries, json_error, calls, lei_code, attempt, fetch_error,
                   cache_at_call, prev_outcome, enrich_vars>>

\* an attempt that raises a RequestException: back off and go round the loop
\* again, or raise LEIEnrichmentError after the last attempt
AttemptRequestException(resp) ==
    /\ fetch_state = "active"
    /\ IsRequestException(Classify(resp, json_error))
    /\ IF RetryLeft(attempt, max_retries)
       THEN /\ trace' = trace \o <<Request(attempt, resp, "RequestException"),
                                   BackoffSleep(Backoff(attempt))>>
            /\ attempt' = attempt + 1
            /\ UNCHANGED <<fetch_state, fetch_error, last_outcome>>
       ELSE /\ trace' = trace \o <<Request(attempt, resp, "RequestException")>>
            /\ fetch_state' = "raised"
            /\ fetch_error' = "LEIEnrichmentError"
            /\ last_outcome' = [last_outcome EXCEPT ![lei_code] = "unavailable"]
            /\ UNCHANGED attempt
    /\ lei_cache' = OnRequestException(lei_cache, lei_code)
    /\ UNCHANGED <<max_retries, json_error, calls, lei_code, result,
                   cache_at_call, prev_outcome, enrich_vars>>

\* an attempt that raises KeyError or json.JSONDecodeError: cache the
\* all-empty record and return it
AttemptParseError(resp) ==
    /\ fetch_state = "active"
    /\ IsParseError(Classify(resp, json_error))
    /\ result' = EmptyRecord
    /\ lei_cache' = CachePut(lei_cache, lei_code, EmptyRecord)
    /\ trace' = trace \o <<Request(attempt, resp, Classify(resp, json_error)), CacheWrite>>
    /\ fetch_state' = "returned"
    /\ last_outcome' = [last_outcome EXCEPT ![lei_code] = "malformed"]
    /\ UNCHANGED <<max_retries, json_error, calls, lei_code, attempt, fetch_error,
                   cache_at_call, prev_outcome, enrich_vars>>

\* an attempt that raises an exception no except clause names (TypeError,
\* AttributeError, simplejson's ValueError): it leaves _fetch_lei_data
AttemptUncaught(resp) ==
    /\ fetch_state = "active"
    /\ Classify(resp, json_error) \notin {"record", "empty"}
    /\ ~IsRequestException(Classify(resp, json_error))
    /\ ~IsParseError(Classify(resp, json_error))
    /\ trace' = trace \o <<Request(attempt, resp, Classify(resp, json_error))>>
    /\ fetch_state' = "raised"
    /\ fetch_error' = Classify(resp, json_error)
    /\ last_outcome' = [last_outcome EXCEPT ![lei_code] = "error"]
    /\ UNCHANGED <<max_retries, json_error, calls, lei_cache, lei_code, attempt,
                   result, cache_at_call, prev_outcome, enrich_vars>>

(***************************************************************************)
(* _calculate_transaction_costs                                             *)
(***************************************************************************)
\* row.get(col, default)
Get(row, col, default) == IF col \in DOMAIN row THEN row[col] ELSE default

\* str.upper() on the country codes of the model
Upper(s) == CASE s = "gb" -> "GB" [] s = "nl" -> "NL" [] s = "us" -> "US" [] OTHER -> s

\* notional * rate - notional
CostGB(notional, rate) ==
    Rat(notional.num * rate.num - notional.num * rate.den, notional.den * rate.den)

\* abs(notional * (1/rate) - notional), rate /= 0
CostNL(notional, rate) ==
    Rat(Abs(notional.num * rate.den - notional.num * rate.num),
        Abs(notional.den * rate.num))

\* [raised |-> the exception class that leaves the function, "" if none,
\*  value |-> the cost returned]
CalculateTransactionCosts(row) ==
    LET country  == Get(row, "country", "")
        notional == Get(row, "notional", Zero)
        rate     == Get(row, "rate", Zero)
    IN  IF country = JsonNull
        THEN [raised |-> "AttributeError", value |-> Zero]   \* None.upper()
        ELSE IF notional.kind # "num" \/ rate.kind # "num"
        THEN [raised |-> "", value |-> Zero]                  \* except (ValueError, TypeError)
        ELSE IF Upper(country) = "GB"
        THEN [raised |-> "", value |-> CostGB(notional, rate)]
        ELSE IF Upper(country) = "NL"
        THEN [raised |-> "",
              value |-> IF rate.num # 0 THEN CostNL(notional, rate) ELSE Zero]
        ELSE [raised |-> "", value |-> Zero]

(***************************************************************************)
(* enrich_dataset                                                           *)
(***************************************************************************)
Columns == {"lei", "notional", "rate"}

EmptyTable == [columns |-> {}, rows |-> <<>>]

\* the notional and rate cells of the rows of the model
CostCells ==
    { [notional |-> Num(1000, 1), rate |-> Num(21, 20)] }

MkRow(cols, lei, cells) ==
    [c \in cols |-> CASE c = "lei" -> lei
                      [] c = "notional" -> cells.notional
                      [] c = "rate" -> cells.rate]

RowsOf(cols) ==
    IF "lei" \in cols
    THEN {MkRow(cols, l, c) : l \in LEIs, c \in CostCells}
    ELSE {MkRow(cols, "", c) : c \in CostCells}

\* the input tables: with an lei column, and without one
Tables ==
    UNION { { [columns |-> cols, rows |-> r] :
              r \in UNION {[1..n -> RowsOf(cols)] : n \in 0..MaxRows} } :
            cols \in {Columns, Columns \ {"lei"}} }

\* input_data['lei']
LeiColumn(rows) == [i \in 1..Len(rows) |-> rows[i]["lei"]]

RECURSIVE Contains(_, _)
Contains(seq, x) ==
    IF seq = <<>> THEN FALSE ELSE Head(seq) = x \/ Contains(Tail(seq), x)

\* Series.unique(): the distinct values in order of first appearance
RECURSIVE UniqueFrom(_, _)
UniqueFrom(seq, seen) ==
    IF seq = <<>> THEN seen
    ELSE IF Contains(seen, Head(seq)) THEN UniqueFrom(Tail(seq), seen)
    ELSE UniqueFrom(Tail(seq), Append(seen, Head(seq)))

\* Unique without the deduplication
UniqueKeepsAll(seq) == seq

Unique(seq) == UniqueFrom(seq, <<>>)

\* lei_info[lei_code] = self._fetch_lei_data(lei_code)
OnFetched(info, lei, rec) ==
    [l \in DOMAIN info \cup {lei} |-> IF l = lei THEN rec ELSE info[l]]

\* OnLEIEnrichmentError blanking every LEI looked up so far
OnLEIEnrichmentErrorWipes(info, lei) ==
    [l \in DOMAIN info \cup {lei} |-> EmptyRecord]

\* except LEIEnrichmentError: lei_info[lei_code] = the all-empty record
OnLEIEnrichmentError(info, lei) ==
    [l \in DOMAIN info \cup {lei} |-> IF l = lei THEN EmptyRecord ELSE info[l]]

\* lei_info.get(x, {}).get(field, ''), for a lei_info value that is a dict
InfoField(info, lei, field) ==
    IF lei \in DOMAIN info THEN info[lei][field] ELSE ""

\* the row with the country column of line 171
WithCountry(row, info) ==
    [c \in DOMAIN row \cup {"country"} |->
        IF c = "country" THEN InfoField(info, row["lei"], "country") ELSE row[c]]

\* one row of the returned frame: the row's own columns, legalName, bic and
\* transaction_costs; the country column is dropped
EnrichedRow(row, info) ==
    [c \in (DOMAIN row \cup {"legalName", "bic", "transaction_costs"})
           \ {"country"} |->
        CASE c = "legalName" -> InfoField(info, row["lei"], "legalName")
          [] c = "bic" -> InfoField(info, row["lei"], "bic")
          [] c = "transaction_costs" ->
                CalculateTransactionCosts(WithCountry(row, info)).value
          [] OTHER -> row[c]]

\* Join that loses the row order
JoinReversed(rows, info) ==
    [i \in 1..Len(rows) |-> EnrichedRow(rows[Len(rows) + 1 - i], info)]

\* the frame enrich_dataset returns
Join(rows, info) == [i \in 1..Len(rows) |-> EnrichedRow(rows[i], info)]

\* the exception that leaves lines 169-175, "" if none: .get on a lei_info
\* value that is None, or an exception leaving _calculate_transaction_costs
JoinError(rows, info) ==
    IF \E i \in 1..Len(rows) : info[rows[i]["lei"]] = PyNone
    THEN "AttributeError"
    ELSE IF \E i \in 1..Len(rows) :
               CalculateTransactionCosts(WithCountry(rows[i], info)).raised # ""
    THEN "AttributeError"
    ELSE ""

NoCalls == [l \in LEIs |-> 0]

FetchIdle ==
    /\ lei_code' = ""
    /\ attempt' = 0
    /\ fetch_state' = "idle"
    /\ fetch_error' = ""
    /\ result' = PyNone
    /\ trace' = <<>>
    /\ cache_at_call' = lei_cache
    /\ prev_outcome' = ""

EnrichIdle ==
    /\ input_data' = EmptyTable
    /\ unique_leis' = <<>>
    /\ idx' = 1
    /\ lei_info' = EmptyMap
    /\ enrich_state' = "idle"
    /\ enrich_error' = ""
    /\ enriched_data' = <<>>
    /\ fetch_calls' = NoCalls
    /\ resolved' = EmptyMap

\* a call is in progress
Busy == fetch_state = "active" \/ enrich_state \in {"lookup", "waiting"}

\* the client calls _fetch_lei_data(lei)
CallFetch(lei) ==
    /\ ~Busy
    /\ calls < MaxCalls
    /\ calls' = calls + 1
    /\ FetchEnter(lei)
    /\ EnrichIdle
    /\ UNCHANGED <<max_retries, json_error, lei_cache, last_outcome>>

MissingLeiColumnNever(table) == FALSE

\* 'lei' not in input_data.columns
MissingLeiColumn(table) == "lei" \notin table.columns

\* the client calls enrich_dataset(table): the column check, the copy and
\* unique(); input_data['lei'] raises KeyError on a table without the column
CallEnrich(table) ==
    /\ ~Busy
    /\ calls < MaxCalls
    /\ calls' = calls + 1
    /\ FetchIdle
    /\ input_data' = table
    /\ lei_info' = EmptyMap
    /\ enriched_data' = <<>>
    /\ fetch_calls' = NoCalls
    /\ resolved' = EmptyMap
    /\ idx' = 1
    /\ IF MissingLeiColumn(table)
       THEN /\ enrich_state' = "raised"
            /\ enrich_error' = "LEIEnrichmentError"
            /\ unique_leis' = <<>>
       ELSE IF "lei" \notin table.columns
       THEN /\ enrich_state' = "raised"
            /\ enrich_error' = "KeyError"
            /\ unique_leis' = <<>>
       ELSE /\ enrich_state' = "lookup"
            /\ enrich_error' = ""
            /\ unique_leis' = Unique(LeiColumn(table.rows))
    /\ UNCHANGED <<max_retries, json_error, lei_cache, last_outcome>>

\* one iteration of the lookup loop calls self._fetch_lei_data(lei_code)
EnrichFetch ==
    /\ enrich_state = "lookup"
    /\ idx <= Len(unique_leis)
    /\ FetchEnter(unique_leis[idx])
    /\ fetch_calls' = [fetch_calls EXCEPT ![unique_leis[idx]] = @ + 1]
    /\ enrich_state' = "waiting"
    /\ UNCHANGED <<max_retries, json_error, lei_cache, calls, last_outcome,
                   input_data, unique_leis, idx, lei_info, enrich_error,
                   enriched_data, resolved>>

\* _fetch_lei_data is over: store what it returned, replace a
\* LEIEnrichmentError by the all-empty record, let any other exception leave
\* enrich_dataset
EnrichAfterFetch ==
    /\ enrich_state = "waiting"
    /\ fetch_state \in {"returned", "raised"}
    /\ resolved' = OnFetched(resolved, lei_code,
                             [error |-> fetch_error, value |-> result])
    /\ IF fetch_state = "returned"
       THEN /\ lei_info' = OnFetched(lei_info, lei_code, result)
            /\ idx' = idx + 1
            /\ enrich_state' = "lookup"
            /\ UNCHANGED enrich_error
       ELSE IF fetch_error = "LEIEnrichmentError"
       THEN /\ lei_info' = OnLEIEnrichmentError(lei_info, lei_code)
            /\ idx' = idx + 1
            /\ enrich_state' = "lookup"
            /\ UNCHANGED enrich_error
       ELSE /\ enrich_state' = "raised"
            /\ enrich_error' = fetch_error
            /\ UNCHANGED <<lei_info, idx>>
    /\ UNCHANGED <<max_retries, json_error, lei_cache, calls, last_outcome,
                   fetch_vars, input_data, unique_leis, enriched_data, fetch_calls>>

InputAfterJoinAliased(table, joined) ==
    [columns |-> table.columns \cup {"legalName", "bic", "transaction_costs"},
     rows |-> joined]

\* the caller's DataFrame after the join: the columns are assigned on
\* enriched_data, which is input_data.copy(), so the caller's is as it was
InputAfterJoin(table, joined) == table

\* after the loop: the three map() calls, the cost column, the drop, return
EnrichJoin ==
    /\ enrich_state = "lookup"
    /\ idx > Len(unique_leis)
    /\ IF JoinError(input_data.rows, lei_info) = ""
       THEN /\ enriched_data' = Join(input_data.rows, lei_info)
            /\ input_data' = InputAfterJoin(input_data, Join(input_data.rows, lei_info))
            /\ enrich_state' = "returned"
            /\ UNCHANGED enrich_error
       ELSE /\ enrich_state' = "raised"
            /\ enrich_error' = JoinError(input_data.rows, lei_info)
            /\ UNCHANGED <<enriched_data, input_data>>
    /\ UNCHANGED <<max_retries, json_error, lei_cache, calls, last_outcome,
                   fetch_vars, unique_leis, idx, lei_info,
                   fetch_calls, resolved>>

(***************************************************************************)
(* save_cache and load_cache                                                *)
(***************************************************************************)
\* number of calls the client of an enricher with a cache file makes in
\* all: _fetch_lei_data, enrich_dataset, save_cache, load_cache
MaxPersistCalls == 4

\* a cache that json.load made of a file holding a JSON array: a list
PyList == [py |-> "list"]

\* self._lei_cache is a dictionary
IsMapping(cache) == cache # PyList

\* the LEIs a cache has an entry for
CacheEntries(cache) == IF IsMapping(cache) THEN DOMAIN cache ELSE {}

RecordFields == {"legalName", "bic", "country"}

ToJsonNullAsEmpty(v) ==
    [t |-> "string", s |-> IF v = JsonNull THEN "" ELSE v]

\* json.dump of one value of a record: a string, or null for None
ToJson(v) ==
    IF v = JsonNull THEN [t |-> "null", s |-> ""] ELSE [t |-> "string", s |-> v]

\* json.load of one value
FromJson(tok) == IF tok.t = "null" THEN JsonNull ELSE tok.s

\* no file, a file that is not JSON (also: a file cut short), a file holding
\* a JSON array, a file holding a JSON object of LEI -> record
MissingFile == [kind |-> "missing", entries |-> <<>>]
UnparseableFile == [kind |-> "unparseable", entries |-> <<>>]
ArrayFile == [kind |-> "array", entries |-> <<>>]

\* json.dump(self._lei_cache, f, indent=2) written to its end
Dump(cache) ==
    IF IsMapping(cache)
    THEN [kind |-> "object",
          entries |-> [l \in DOMAIN cache |->
                          [f \in RecordFields |-> ToJson(cache[l][f])]]]
    ELSE ArrayFile

\* json.load(f) of a file that parses
Loads(file) ==
    IF file.kind = "object"
    THEN [l \in DOMAIN file.entries |->
             [legalName |-> FromJson(file.entries[l]["legalName"]),
              bic       |-> FromJson(file.entries[l]["bic"]),
              country   |-> FromJson(file.entries[l]["country"])]]
    ELSE PyList

\* Path(cache_file).exists()
Exists(file) == file.kind # "missing"

\* json.load raises on this file
LoadRaises(file) == file.kind = "unparseable"

\* the file after open(cache_file, 'w') and a json.dump that stopped short:
\* 'w' truncates on opening, so what is left is the part written
Truncated(file, cache) == UnparseableFile

\* the file after an open(cache_file, 'w') that raised: never opened
NotOpened(file) == file

\* the record of a save_cache or load_cache call: how it ended, the cache and
\* the file it found and the cache it left
PersistOp(name, outcome, after) ==
    [name |-> name, outcome |-> outcome, n |-> persist_op.n + 1,
     cache_before |-> lei_cache, file_before |-> cache_file,
     cache_after |-> after]

NoOp == [name |-> "", outcome |-> "", n |-> 0,
         cache_before |-> <<>>, file_before |-> MissingFile,
         cache_after |-> <<>>]

NotSaved == [valid |-> FALSE, cache |-> <<>>]

\* the files the model starts from
SomeCaches ==
    { EmptyMap,
      [l \in {"L1"} |-> Extract([name |-> "Acme Ltd", bic |-> <<"ACMEGB2L">>,
                                 country |-> "GB"])],
      [l \in LEIs |-> IF l = "L1" THEN EmptyRecord
                      ELSE Extract([name |-> "Gamma SA", bic |-> <<>>,
                                    country |-> JsonNull])] }

InitialFiles ==
    {MissingFile, UnparseableFile, ArrayFile} \cup {Dump(c) : c \in SomeCaches}

\* the client calls load_cache(): io is whether opening and reading the file
\* works ("ok") or raises OSError ("error")
LoadCache(io) ==
    /\ ~Busy
    /\ calls + persist_op.n < MaxPersistCalls
    /\ IF ~Exists(cache_file)
       THEN /\ UNCHANGED lei_cache
            /\ persist_op' = PersistOp("load", "missing", lei_cache)
       ELSE IF io = "error" \/ LoadRaises(cache_file)
       THEN /\ UNCHANGED lei_cache
            /\ persist_op' = PersistOp("load", "failed", lei_cache)
       ELSE /\ lei_cache' = Loads(cache_file)
            /\ persist_op' = PersistOp("load", "ok", Loads(cache_file))
    /\ UNCHANGED <<max_retries, json_error, calls, last_outcome, fetch_vars,
                   enrich_vars, cache_file, saved_from>>

\* the client calls save_cache(): io is whether the write works ("ok"),
\* open() raises ("open_fails") or json.dump raises part-way ("write_fails")
SaveCache(io) ==
    /\ ~Busy
    /\ calls + persist_op.n < MaxPersistCalls
    /\ persist_op' = PersistOp("save", IF io = "ok" THEN "ok" ELSE "failed",
                               lei_cache)
    /\ cache_file' = CASE io = "ok" -> Dump(lei_cache)
                       [] io = "open_fails" -> NotOpened(cache_file)
                       [] io = "write_fails" -> Truncated(cache_file, lei_cache)
    /\ saved_from' = CASE io = "ok" -> [valid |-> TRUE, cache |-> lei_cache]
                       [] io = "open_fails" -> saved_from
                       [] io = "write_fails" -> NotSaved
    /\ UNCHANGED <<max_retries, json_error, lei_cache, calls, last_outcome,
                   fetch_vars, enrich_vars>>

(***************************************************************************)
(* The specification.                                                       *)
(***************************************************************************)
\* after LEIDataEnricher(max_retries = n): an empty cache, nothing called
CoreInit(retries, errors) ==
    /\ max_retries \in retries
    /\ json_error \in errors
    /\ lei_cache = EmptyMap
    /\ calls = 0
    /\ last_outcome = [l \in LEIs |-> "never"]
    /\ lei_code = ""
    /\ attempt = 0
    /\ fetch_state = "idle"
    /\ fetch_error = ""
    /\ result = PyNone
    /\ trace = <<>>
    /\ cache_at_call = EmptyMap
    /\ prev_outcome = ""
    /\ input_data = EmptyTable
    /\ unique_leis = <<>>
    /\ idx = 1
    /\ lei_info = EmptyMap
    /\ enrich_state = "idle"
    /\ enrich_error = ""
    /\ enriched_data = <<>>
    /\ fetch_calls = NoCalls
    /\ resolved = EmptyMap

\* no cache file, no save_cache or load_cache call
NoPersist ==
    /\ cache_file = MissingFile
    /\ persist_op = NoOp
    /\ saved_from = NotSaved

NoFirstRun == [state |-> "", error |-> "", data |-> <<>>]

NoIdem ==
    /\ registry = <<>>
    /\ first_run = NoFirstRun

NoCostCall == [raised |-> "not called", value |-> Zero]

NoCost ==
    /\ cost_in = <<>>
    /\ cost_out = NoCostCall

Init ==
    /\ CoreInit(0..MaxRetries, JsonErrors)
    /\ NoPersist
    /\ NoIdem
    /\ NoCost

Next ==
    \/ \E lei \in LEIs : CallFetch(lei) /\ UNCHANGED <<persist_vars, idem_vars, cost_vars>>
    \/ \E resp \in Responses :
          AttemptRecord(resp) /\ UNCHANGED <<persist_vars, idem_vars, cost_vars>>
    \/ \E resp \in Responses :
          AttemptNoRecords(resp) /\ UNCHANGED <<persist_vars, idem_vars, cost_vars>>
    \/ \E resp \in Responses :
          AttemptRequestException(resp) /\ UNCHANGED <<persist_vars, idem_vars, cost_vars>>
    \/ \E resp \in Responses :
          AttemptParseError(resp) /\ UNCHANGED <<persist_vars, idem_vars, cost_vars>>
    \/ \E resp \in Responses :
          AttemptUncaught(resp) /\ UNCHANGED <<persist_vars, idem_vars, cost_vars>>
    \/ \E table \in Tables :
          CallEnrich(table) /\ UNCHANGED <<persist_vars, idem_vars, cost_vars>>
    \/ EnrichFetch /\ UNCHANGED <<persist_vars, idem_vars, cost_vars>>
    \/ EnrichAfterFetch /\ UNCHANGED <<persist_vars, idem_vars, cost_vars>>
    \/ EnrichJoin /\ UNCHANGED <<persist_vars, idem_vars, cost_vars>>

Spec == Init /\ [][Next]_vars

(***************************************************************************)
(* The enricher with its cache file: _fetch_lei_data, enrich_dataset,       *)
(* save_cache and load_cache in any order.                                  *)
(***************************************************************************)
\* what the file operations do depends neither on the number of attempts nor
\* on the length of the tables: one attempt per call, json.JSONDecodeError as
\* the parse error, tables of at most one row
PersistTables == {t \in Tables : Len(t.rows) <= 1}

PersistInit ==
    /\ CoreInit({1}, {"JSONDecodeError"})
    /\ cache_file \in InitialFiles
    /\ persist_op = NoOp
    /\ saved_from = NotSaved
    /\ NoIdem
    /\ NoCost

\* _fetch_lei_data and enrich_dataset are followed on a cache that is a
\* dictionary
PersistNext ==
    \/ \E lei \in LEIs :
          /\ IsMapping(lei_cache)
          /\ calls + persist_op.n < MaxPersistCalls
          /\ CallFetch(lei)
          /\ UNCHANGED <<persist_vars, idem_vars, cost_vars>>
    \/ \E resp \in Responses :
          AttemptRecord(resp) /\ UNCHANGED <<persist_vars, idem_vars, cost_vars>>
    \/ \E resp \in Responses :
          AttemptNoRecords(resp) /\ UNCHANGED <<persist_vars, idem_vars, cost_vars>>
    \/ \E resp \in Responses :
          AttemptRequestException(resp) /\ UNCHANGED <<persist_vars, idem_vars, cost_vars>>
    \/ \E resp \in Responses :
          AttemptParseError(resp) /\ UNCHANGED <<persist_vars, idem_vars, cost_vars>>
    \/ \E resp \in Responses :
          AttemptUncaught(resp) /\ UNCHANGED <<persist_vars, idem_vars, cost_vars>>
    \/ \E table \in PersistTables :
          /\ IsMapping(lei_cache)
          /\ calls + persist_op.n < MaxPersistCalls
          /\ CallEnrich(table)
          /\ UNCHANGED <<persist_vars, idem_vars, cost_vars>>
    \/ EnrichFetch /\ UNCHANGED <<persist_vars, idem_vars, cost_vars>>
    \/ EnrichAfterFetch /\ UNCHANGED <<persist_vars, idem_vars, cost_vars>>
    \/ EnrichJoin /\ UNCHANGED <<persist_vars, idem_vars, cost_vars>>
    \/ \E io \in {"ok", "error"} :
          LoadCache(io) /\ UNCHANGED <<idem_vars, cost_vars>>
    \/ \E io \in {"ok", "open_fails", "write_fails"} :
          SaveCache(io) /\ UNCHANGED <<idem_vars, cost_vars>>

SpecPersist == PersistInit /\ [][PersistNext]_vars

(***************************************************************************)
(* enrich_dataset called twice with the same table on one enricher, the     *)
(* registry answering every request for a LEI the same way.                 *)
(***************************************************************************)
\* how an enrich_dataset call ended: returned or raised, what it raised, the
\* rows it returned
RunOf(state, error, data) == [state |-> state, error |-> error, data |-> data]

IdemInit ==
    /\ CoreInit(0..MaxRetries, JsonErrors)
    /\ registry \in [LEIs -> Responses]
    /\ first_run = NoFirstRun
    /\ NoPersist
    /\ NoCost

\* the first call, with any table
FirstEnrich(table) ==
    /\ calls = 0
    /\ CallEnrich(table)
    /\ UNCHANGED <<persist_vars, idem_vars, cost_vars>>

\* the second call, with the table of the first, once the first is over
SecondEnrich ==
    /\ calls = 1
    /\ enrich_state \in {"returned", "raised"}
    /\ first_run = NoFirstRun
    /\ CallEnrich(input_data)
    /\ first_run' = RunOf(enrich_state, enrich_error, enriched_data)
    /\ UNCHANGED <<persist_vars, registry, cost_vars>>

IdemNext ==
    \/ \E table \in Tables : FirstEnrich(table)
    \/ SecondEnrich
    \/ AttemptRecord(registry[lei_code])
          /\ UNCHANGED <<persist_vars, idem_vars, cost_vars>>
    \/ AttemptNoRecords(registry[lei_code])
          /\ UNCHANGED <<persist_vars, idem_vars, cost_vars>>
    \/ AttemptRequestException(registry[lei_code])
          /\ UNCHANGED <<persist_vars, idem_vars, cost_vars>>
    \/ AttemptParseError(registry[lei_code])
          /\ UNCHANGED <<persist_vars, idem_vars, cost_vars>>
    \/ AttemptUncaught(registry[lei_code])
          /\ UNCHANGED <<persist_vars, idem_vars, cost_vars>>
    \/ EnrichFetch /\ UNCHANGED <<persist_vars, idem_vars, cost_vars>>
    \/ EnrichAfterFetch /\ UNCHANGED <<persist_vars, idem_vars, cost_vars>>
    \/ EnrichJoin /\ UNCHANGED <<persist_vars, idem_vars, cost_vars>>

SpecIdem == IdemInit /\ [][IdemNext]_vars

(***************************************************************************)
(* _calculate_transaction_costs on a row of any content.                    *)
(***************************************************************************)
\* the country cells of a row: what the registry gave, '' and None
CostCountries == {"GB", "gb", "NL", "nl", "US", "", JsonNull}

\* the notional and rate cells of a row
CostNumbers == {Num(1000, 1), Num(21, 20), Num(1, 2), Zero, NonNumeric}

CostColumns == {"country", "notional", "rate"}

\* rows with any of the three columns present
CostRows ==
    UNION { { [c \in cols |-> CASE c = "country" -> country
                                [] c = "notional" -> notional
                                [] c = "rate" -> rate] :
              country \in CostCountries, notional \in CostNumbers,
              rate \in CostNumbers } :
            cols \in SUBSET CostColumns }

CostInit ==
    /\ CoreInit({MaxRetries}, {"JSONDecodeError"})
    /\ NoPersist
    /\ NoIdem
    /\ cost_in \in CostRows
    /\ cost_out = NoCostCall

\* self._calculate_transaction_costs(row)
ApplyCost ==
    /\ cost_out = NoCostCall
    /\ cost_out' = CalculateTransactionCosts(cost_in)
    /\ UNCHANGED <<core_vars, persist_vars, idem_vars, cost_in>>

SpecCost == CostInit /\ [][ApplyCost]_vars

(***************************************************************************)
(* Properties.                                                              *)
(***************************************************************************)
FetchOver == fetch_state \in {"returned", "raised"}

\* the positions of trace that are requests
RequestsIn(tr) == {i \in 1..Len(tr) : tr[i].ev = "request"}

\* the record enrich_dataset uses for a LEI it looked up: what
\* _fetch_lei_data returned, the all-empty record if it raised
\* LEIEnrichmentError
ResolvedRecord(lei) ==
    IF resolved[lei].error = "LEIEnrichmentError" THEN EmptyRecord
    ELSE resolved[lei].value

\* C1: when enrich_dataset returns, it returns one row per input row in the
\* input's order: row i has every column of input row i with its value, and
\* the legalName and bic of the record resolved for that row's LEI.
C1_OneRowPerInputRow ==
    enrich_state = "returned" =>
        /\ Len(enriched_data) = Len(input_data.rows)
        /\ \A i \in 1..Len(input_data.rows) :
              LET row == input_data.rows[i]
                  out == enriched_data[i]
              IN  /\ \A c \in DOMAIN row : c \in DOMAIN out /\ out[c] = row[c]
                  /\ row["lei"] \in DOMAIN resolved
                  /\ out["legalName"] = ResolvedRecord(row["lei"]).legalName
                  /\ out["bic"] = ResolvedRecord(row["lei"]).bic

C1_Witness ==
    /\ enrich_state = "returned"
    /\ Len(enriched_data) = 2
    /\ enriched_data[1]["lei"] # enriched_data[2]["lei"]
    /\ enriched_data[1]["legalName"] = "Acme Ltd"
    /\ enriched_data[2]["legalName"] = "Beta BV"

\* C2: enrich_dataset raises only the missing-lei-column error: whatever the
\* registry answers and whatever the values are, a call on a table that has
\* an lei column returns.
C2_OnlyMissingColumnIsFatal ==
    enrich_state = "raised" =>
        enrich_error = "LEIEnrichmentError" /\ "lei" \notin input_data.columns

\* C3: when the lookup of a LEI raises LEIEnrichmentError, enrich_dataset
\* does not raise it, the rows of that LEI get empty legalName and bic and
\* cost 0, and the rows of every other LEI of the batch, looked up before or
\* after it, carry the record the registry gave for their LEI, which is the
\* record the cache holds for it.
C3_FailureIsolated ==
    /\ enrich_state = "raised" /\ "lei" \in input_data.columns
          => enrich_error # "LEIEnrichmentError"
    /\ enrich_state = "returned" =>
          \A i \in 1..Len(input_data.rows) :
              LET lei == input_data.rows[i]["lei"]
                  out == enriched_data[i]
              IN  /\ lei \in DOMAIN resolved
                  /\ resolved[lei].error = "LEIEnrichmentError" =>
                        /\ out["legalName"] = ""
                        /\ out["bic"] = ""
                        /\ out["transaction_costs"] = Zero
                  /\ resolved[lei].error = "" /\ resolved[lei].value # PyNone =>
                        /\ lei \in DOMAIN lei_cache
                        /\ out["legalName"] = lei_cache[lei].legalName
                        /\ out["bic"] = lei_cache[lei].bic

C3_Witness ==
    /\ enrich_state = "returned"
    /\ Len(enriched_data) = 2
    /\ unique_leis = <<"L1", "L2">>
    /\ resolved["L1"].error = "LEIEnrichmentError"
    /\ enriched_data[1]["lei"] = "L1"
    /\ enriched_data[2]["lei"] = "L2"
    /\ enriched_data[2]["legalName"] = "Acme Ltd"
    /\ enriched_data[2]["transaction_costs"] = Num(50, 1)

\* C4: within one enrich_dataset call _fetch_lei_data is invoked at most once
\* per LEI, exactly once per distinct LEI of the input by the time the call
\* returns and never for another LEI, and that one invocation issues at most
\* max_retries requests however many rows carry the LEI.
C4_OneResolutionPerDistinctLei ==
    enrich_state # "idle" =>
        /\ \A l \in LEIs : fetch_calls[l] <= 1
        /\ enrich_state = "waiting" => Cardinality(RequestsIn(trace)) <= max_retries
        /\ enrich_state = "returned" =>
              \A l \in LEIs :
                  fetch_calls[l] =
                      IF \E i \in 1..Len(input_data.rows) : input_data.rows[i]["lei"] = l
                      THEN 1 ELSE 0

C4_Witness ==
    /\ enrich_state = "returned"
    /\ Len(input_data.rows) = 2
    /\ input_data.rows[1]["lei"] = "L1"
    /\ input_data.rows[2]["lei"] = "L1"
    /\ fetch_calls["L1"] = 1
    /\ Cardinality(RequestsIn(trace)) = 2

\* C5: a request answered with zero records is the last request of its
\* _fetch_lei_data, which returns the all-empty record and leaves it in the
\* cache under that LEI; a later _fetch_lei_data of a LEI whose latest
\* resolution ended that way returns the all-empty record and issues no
\* request.
C5_AbsentLeiIsCached ==
    /\ \A i \in RequestsIn(trace) :
          trace[i].kind = "norecords" =>
              /\ \A j \in RequestsIn(trace) : j <= i
              /\ fetch_state = "returned"
              /\ result = EmptyRecord
              /\ lei_code \in DOMAIN lei_cache
              /\ lei_cache[lei_code] = EmptyRecord
    /\ fetch_state # "idle" /\ prev_outcome = "norecords" =>
          /\ fetch_state = "returned"
          /\ result = EmptyRecord
          /\ trace = <<>>

C5_Witness ==
    /\ fetch_state = "returned"
    /\ prev_outcome = "norecords"
    /\ result = EmptyRecord
    /\ trace = <<>>

\* C6: a _fetch_lei_data of a LEI that is not cached issues one request per
\* attempt and at most max_retries in all; it raises LEIEnrichmentError
\* exactly when max_retries attempts ended in a transport failure; an attempt
\* that does not end in a transport failure is the last one and
\* _fetch_lei_data returns after it.
C6_RetriesBounded ==
    FetchOver /\ lei_code \notin DOMAIN cache_at_call =>
        LET reqs == RequestsIn(trace)
            failed == {i \in reqs : trace[i].kind = "transport"}
        IN  /\ Cardinality(reqs) <= max_retries
            /\ \A i \in reqs : trace[i].n = Cardinality({j \in reqs : j < i})
            /\ (fetch_state = "raised" /\ fetch_error = "LEIEnrichmentError")
                  <=> Cardinality(failed) = max_retries
            /\ \A i \in reqs :
                  trace[i].kind # "transport" =>
                      /\ \A j \in reqs : j <= i
                      /\ fetch_state = "returned"

\* C7: a request that ends in a transport failure is followed by a backoff
\* sleep when it is not the last attempt, and is the end of the invocation
\* when it is; the sleep after attempt 0 is 1 and each later sleep is twice
\* the one before it; every request of an attempt after the first comes
\* right after the sleep that follows the attempt before it, and every
\* backoff sleep is followed by the next request.
C7_ExponentialBackoff ==
    \A i \in 1..Len(trace) :
        /\ trace[i].ev = "request" /\ trace[i].n > 0 =>
              /\ i >= 3
              /\ trace[i - 1].ev = "backoff"
              /\ trace[i - 2].ev = "request"
              /\ trace[i - 2].n = trace[i].n - 1
        /\ trace[i].ev = "backoff" =>
              /\ i >= 2
              /\ trace[i - 1].ev = "request"
              /\ trace[i - 1].n < max_retries - 1
              /\ trace[i].n = IF trace[i - 1].n = 0 THEN 1 ELSE 2 * trace[i - 2].n
              /\ IF i = Len(trace) THEN fetch_state = "active"
                 ELSE trace[i + 1].ev = "request"
        /\ trace[i].ev = "request" /\ trace[i].kind = "transport" =>
              IF trace[i].n < max_retries - 1
              THEN i < Len(trace) /\ trace[i + 1].ev = "backoff"
              ELSE /\ i = Len(trace)
                   /\ fetch_state = "raised"
                   /\ fetch_error = "LEIEnrichmentError"

C7_Witness ==
    /\ fetch_state = "raised"
    /\ fetch_error = "LEIEnrichmentError"
    /\ Len(trace) = 5
    /\ trace[2] = BackoffSleep(1)
    /\ trace[4] = BackoffSleep(2)
    /\ \A i \in {1, 3, 5} : trace[i].kind = "transport"

\* C8: a _fetch_lei_data that raises LEIEnrichmentError leaves the cache as
\* it found it, without an entry for its LEI, and the next _fetch_lei_data of
\* that LEI issues a request again; a _fetch_lei_data that returns a record
\* leaves that record in the cache under its LEI.
C8_ExhaustedRetriesNotCached ==
    /\ fetch_state = "raised" /\ fetch_error = "LEIEnrichmentError" =>
          /\ lei_cache = cache_at_call
          /\ lei_code \notin DOMAIN lei_cache
    /\ FetchOver /\ prev_outcome = "unavailable" => RequestsIn(trace) # {}
    /\ fetch_state = "returned" /\ result # PyNone =>
          /\ lei_code \in DOMAIN lei_cache
          /\ lei_cache[lei_code] = result

C8_Witness ==
    /\ fetch_state = "returned"
    /\ prev_outcome = "unavailable"
    /\ RequestsIn(trace) # {}
    /\ lei_code \in DOMAIN lei_cache
    /\ lei_code \notin DOMAIN cache_at_call

\* C9: a _fetch_lei_data of a LEI the cache holds returns the cached entry
\* at once: no request, no sleep of either kind, the cache as it was.
C9_CacheHitIsImmediate ==
    fetch_state # "idle" /\ lei_code \in DOMAIN cache_at_call =>
        /\ fetch_state = "returned"
        /\ result = cache_at_call[lei_code]
        /\ trace = <<>>
        /\ lei_cache = cache_at_call

C9_Witness ==
    /\ fetch_state = "returned"
    /\ lei_code \in DOMAIN cache_at_call
    /\ result = [legalName |-> "Acme Ltd", bic |-> "ACMEGB2L", country |-> "GB"]
    /\ trace = <<>>

\* C10: a request answered with a malformed response (a body that is not
\* JSON, or JSON of an unexpected shape) is the last request of its
\* _fetch_lei_data, which returns the all-empty record without raising and
\* leaves it in the cache under that LEI.
C10_MalformedNotRetried ==
    \A i \in RequestsIn(trace) :
        trace[i].kind \in {"unparseable", "shape_keyerror", "shape_typeerror"} =>
            /\ \A j \in RequestsIn(trace) : j <= i
            /\ fetch_state = "returned"
            /\ result = EmptyRecord
            /\ lei_code \in DOMAIN lei_cache
            /\ lei_cache[lei_code] = EmptyRecord

\* C12: an enrich_dataset of a table without the lei column raises
\* LEIEnrichmentError before anything else happens: no _fetch_lei_data call,
\* no request, no sleep, and the cache is what it was at the call.
C12_MissingColumnBeforeNetwork ==
    enrich_state = "raised" /\ "lei" \notin input_data.columns =>
        /\ enrich_error = "LEIEnrichmentError"
        /\ fetch_calls = NoCalls
        /\ fetch_state = "idle"
        /\ trace = <<>>
        /\ lei_cache = cache_at_call

C12_Witness ==
    /\ enrich_state = "raised"
    /\ "lei" \notin input_data.columns
    /\ Len(input_data.rows) = MaxRows
    /\ DOMAIN lei_cache # {}

\* the rate-limit sleeps of a trace
RateLimitSleepsIn(tr) == {i \in 1..Len(tr) : tr[i] = RateLimitSleep}

\* C17: a _fetch_lei_data that ends on a response with a record sleeps
\* rate_limit_delay exactly once, as its last step, right after the cache
\* write; one that ends on a cache hit or on a caught parse error of a
\* malformed response never sleeps rate_limit_delay.
C17_RateLimitDelayOnSuccessOnly ==
    /\ fetch_state = "returned" /\ last_outcome[lei_code] = "record"
          /\ lei_code \notin DOMAIN cache_at_call =>
            /\ Len(trace) >= 3
            /\ trace[Len(trace) - 2].ev = "request"
            /\ trace[Len(trace) - 2].how = "record"
            /\ trace[Len(trace) - 1] = CacheWrite
            /\ trace[Len(trace)] = RateLimitSleep
            /\ RateLimitSleepsIn(trace) = {Len(trace)}
    /\ fetch_state = "returned" /\ lei_code \in DOMAIN cache_at_call =>
            RateLimitSleepsIn(trace) = {}
    /\ fetch_state = "returned" /\ lei_code \notin DOMAIN cache_at_call
          /\ last_outcome[lei_code] = "malformed" =>
            RateLimitSleepsIn(trace) = {}

C17_Witness ==
    /\ fetch_state = "returned"
    /\ last_outcome[lei_code] = "record"
    /\ lei_code \notin DOMAIN cache_at_call
    /\ Len(trace) = 5
    /\ trace[Len(trace)] = RateLimitSleep

\* C18: the caller's table changes only when the caller passes a new one to
\* enrich_dataset: no step of a call in progress, its join and cost phase
\* included, changes its columns or rows, and the join and cost phase leaves
\* the cache as it is.
C18_InputNeverMutated ==
    [][ /\ calls' = calls => input_data' = input_data
        /\ enrich_state = "lookup" /\ enrich_state' \in {"returned", "raised"} =>
              lei_cache' = lei_cache ]_vars

C18_Witness ==
    /\ enrich_state = "returned"
    /\ Len(input_data.rows) = MaxRows
    /\ Len(enriched_data) = MaxRows
    /\ input_data.columns = Columns
    /\ DOMAIN lei_cache # {}

\* a cell is there and float() takes it
Numeric(row, col) == col \in DOMAIN row /\ row[col].kind = "num"

\* C19: _calculate_transaction_costs never raises and returns what the rule
\* table gives: 0 when notional or rate is missing or not a number, else
\* notional * rate - notional for GB, abs(notional / rate - notional) for NL
\* (0 when rate is 0), 0 for any other country, the country upper-cased.
C19_CostRuleTable ==
    cost_out # NoCostCall =>
        /\ cost_out.raised = ""
        /\ cost_out.value =
             IF ~Numeric(cost_in, "notional") \/ ~Numeric(cost_in, "rate")
             THEN Zero
             ELSE IF Upper(Get(cost_in, "country", "")) = "GB"
             THEN CostGB(cost_in["notional"], cost_in["rate"])
             ELSE IF Upper(Get(cost_in, "country", "")) = "NL"
             THEN IF cost_in["rate"] = Zero
                  THEN Zero
                  ELSE CostNL(cost_in["notional"], cost_in["rate"])
             ELSE Zero

\* C20: a finished _fetch_lei_data of a LEI that was not cached either
\* returned a record of legalName, bic and country or raised
\* LEIEnrichmentError, whatever max_retries is.
C20_RecordOrUnavailable ==
    FetchOver /\ lei_code \notin DOMAIN cache_at_call =>
        \/ fetch_state = "returned" /\ result # PyNone
                                    /\ DOMAIN result = RecordFields
        \/ fetch_state = "raised" /\ fetch_error = "LEIEnrichmentError"

\* a step that is a load_cache call
LoadStep == persist_op'.n # persist_op.n /\ persist_op'.name = "load"

\* every entry of the cache is an entry of the cache of the next state
EntriesKept ==
    \A l \in CacheEntries(lei_cache) :
        l \in CacheEntries(lei_cache') /\ lei_cache'[l] = lei_cache[l]

\* C11 as stated: no step of _fetch_lei_data, enrich_dataset, load_cache or
\* save_cache removes or overwrites an entry of the in-memory cache.
C11_EntriesPermanent == [][EntriesKept]_vars

\* C11: no step of _fetch_lei_data, enrich_dataset or save_cache removes or
\* overwrites an entry of the in-memory cache; a load_cache that reads its
\* file replaces the cache by what the file holds, and one that finds no
\* file or cannot read it leaves the cache as it is.
C11_EntriesPermanentUntilLoad ==
    [][ IF LoadStep
        THEN IF persist_op'.outcome = "ok"
             THEN lei_cache' = Loads(cache_file)
             ELSE lei_cache' = lei_cache
        ELSE EntriesKept ]_vars

C11_Witness ==
    /\ persist_op.name = "load"
    /\ persist_op.outcome = "ok"
    /\ CacheEntries(persist_op.cache_before) # {}
    /\ \E l \in CacheEntries(persist_op.cache_before) :
          l \notin CacheEntries(persist_op.cache_after)
    /\ lei_cache = persist_op.cache_after

\* C13: the second of two enrich_dataset calls with the same table, the
\* registry answering every request for a LEI the same way throughout, ends
\* as the first did: it returns the same rows, or raises the same error.
C13_EnrichIdempotent ==
    first_run # NoFirstRun /\ enrich_state \in {"returned", "raised"} =>
        RunOf(enrich_state, enrich_error, enriched_data) = first_run

C13_Witness ==
    /\ first_run.state = "returned"
    /\ enrich_state = "returned"
    /\ Len(enriched_data) = MaxRows
    /\ \E i \in 1..Len(enriched_data) : enriched_data[i]["legalName"] = "Acme Ltd"
    /\ \E l \in LEIs : last_outcome[l] = "unavailable" /\ fetch_calls[l] = 1
    /\ \E l \in LEIs : l \in DOMAIN lei_cache /\ fetch_calls[l] = 1

\* C14: a load_cache that reads the file a save_cache wrote leaves as the
\* in-memory cache exactly the mapping that save_cache wrote from, whatever
\* the cache was at the load.
C14_RoundTrip ==
    persist_op.name = "load" /\ persist_op.outcome = "ok" /\ saved_from.valid =>
        persist_op.cache_after = saved_from.cache

C14_Witness ==
    /\ persist_op.name = "load"
    /\ persist_op.outcome = "ok"
    /\ saved_from.valid
    /\ persist_op.cache_before # saved_from.cache
    /\ \E l \in CacheEntries(saved_from.cache) :
          /\ saved_from.cache[l].country = JsonNull
          /\ saved_from.cache[l].legalName = "Gamma SA"
    /\ lei_cache = saved_from.cache

\* C15: a load_cache that finds no file, a file that is not JSON or a file
\* whose JSON is not a mapping leaves the in-memory cache as it was.
C15_LoadKeepsCacheOnBadFile ==
    persist_op.name = "load"
        /\ persist_op.file_before.kind \in {"missing", "unparseable", "array"} =>
            persist_op.cache_after = persist_op.cache_before

\* C16: after a save_cache that failed, at open() or while writing, the
\* file holds what it held before the call.
C16_FailedSaveKeepsFile ==
    persist_op.name = "save" /\ persist_op.outcome = "failed" =>
        cache_file = persist_op.file_before

====
